---- MODULE Spec2Model ----
(***************************************************************************)
(* Adalpha / AdAlpha_Momentum optimizers and the Adalpha_Callback          *)
(* loss-ratio controller of src/Adalpha.py.                                *)
(*                                                                         *)
(* Numbers.  The tensors of the program hold floating-point numbers.  Here *)
(* a number is a signed decimal fixed-point value <<sign, magnitude>>: the *)
(* magnitude is a natural number, in limbs of four decimal digits (least   *)
(* significant first, no leading zero limb), counting units of             *)
(* 10^-(4*FracLimbs).  Sums and differences are exact; products, quotients *)
(* and square roots are rounded toward zero to the last digit kept, as a   *)
(* finite-precision arithmetic does.  sign 2 is NaN (sqrt of a negative).  *)
(* With the default beta_1 = 0.9 and beta_2 = 0.999 the moments of the     *)
(* base variant have 1 and 3 more decimal digits per step, so within the   *)
(* step bound every product by (1 - beta) is exact.                        *)
(***************************************************************************)
EXTENDS Integers, Sequences, FiniteSets, TLC

(* ---------------------------- naturals ---------------------------------- *)

Base == 100 * 100

\* Number of limbs after the decimal point (4 decimal digits each).
FracLimbs == 4

RECURSIVE NatOf(_)
NatOf(n) == IF n = 0 THEN <<>> ELSE <<n % Base>> \o NatOf(n \div Base)

RECURSIVE Strip(_)
Strip(a) == IF a = <<>> THEN a
            ELSE IF a[Len(a)] = 0 THEN Strip(SubSeq(a, 1, Len(a) - 1)) ELSE a

Limb(a, i) == IF i <= Len(a) THEN a[i] ELSE 0

RECURSIVE CmpAt(_, _, _)
CmpAt(a, b, i) == IF i = 0 THEN 0
                  ELSE IF a[i] < b[i] THEN -1
                  ELSE IF a[i] > b[i] THEN 1
                  ELSE CmpAt(a, b, i - 1)

NatCmp(a, b) == IF Len(a) < Len(b) THEN -1
                ELSE IF Len(a) > Len(b) THEN 1
                ELSE CmpAt(a, b, Len(a))

RECURSIVE AddAt(_, _, _, _, _)
AddAt(a, b, i, c, acc) ==
    IF i > Len(a) /\ i > Len(b)
    THEN (IF c = 0 THEN acc ELSE Append(acc, c))
    ELSE LET x == Limb(a, i) + Limb(b, i) + c
         IN AddAt(a, b, i + 1, x \div Base, Append(acc, x % Base))

NatAdd(a, b) == AddAt(a, b, 1, 0, <<>>)

\* a - b for a >= b
RECURSIVE SubAt(_, _, _, _, _)
SubAt(a, b, i, c, acc) ==
    IF i > Len(a) THEN Strip(acc)
    ELSE LET x == a[i] - Limb(b, i) - c
         IN IF x < 0 THEN SubAt(a, b, i + 1, 1, Append(acc, x + Base))
                     ELSE SubAt(a, b, i + 1, 0, Append(acc, x))

NatSub(a, b) == SubAt(a, b, 1, 0, <<>>)

RECURSIVE MulSmallAt(_, _, _, _, _)
MulSmallAt(a, k, i, c, acc) ==
    IF i > Len(a) THEN (IF c = 0 THEN acc ELSE Append(acc, c))
    ELSE LET x == a[i] * k + c
         IN MulSmallAt(a, k, i + 1, x \div Base, Append(acc, x % Base))

\* a * k for one limb k
NatMulSmall(a, k) == IF k = 0 \/ a = <<>> THEN <<>> ELSE MulSmallAt(a, k, 1, 0, <<>>)

Zeros(n) == [i \in 1..n |-> 0]

\* a * Base^n
ShiftUp(a, n) == IF a = <<>> THEN a ELSE Zeros(n) \o a

\* a \div Base^n
ShiftDown(a, n) == IF Len(a) <= n THEN <<>> ELSE SubSeq(a, n + 1, Len(a))

RECURSIVE MulAt(_, _, _, _)
MulAt(a, b, j, acc) ==
    IF j > Len(b) THEN acc
    ELSE MulAt(a, b, j + 1,
               IF b[j] = 0 THEN acc
               ELSE NatAdd(acc, ShiftUp(NatMulSmall(a, b[j]), j - 1)))

NatMul(a, b) == IF a = <<>> \/ b = <<>> THEN <<>> ELSE MulAt(a, b, 1, <<>>)

\* The limb q in lo..hi with q*b <= r < (q+1)*b, by bisection.
RECURSIVE QuotDigit(_, _, _, _)
QuotDigit(r, b, lo, hi) ==
    IF lo >= hi THEN lo
    ELSE LET mid == (lo + hi + 1) \div 2
         IN IF NatCmp(NatMulSmall(b, mid), r) <= 0
            THEN QuotDigit(r, b, mid, hi)
            ELSE QuotDigit(r, b, lo, mid - 1)

\* The limbs of a from position n up, as one integer (at most two limbs).
Top2(a, n) == IF Len(a) > n THEN a[n + 1] * Base + a[n]
              ELSE IF Len(a) = n THEN a[n] ELSE 0

\* Long division of a by b > 0, from the top limb of a down: the quotient.
RECURSIVE DivAt(_, _, _, _, _)
DivAt(a, b, i, r, q) ==
    IF i = 0 THEN Strip(q)
    ELSE LET r1 == Strip(<<a[i]>> \o r)
         IN IF NatCmp(r1, b) < 0 THEN DivAt(a, b, i - 1, r1, <<0>> \o q)
            ELSE LET n  == Len(b)
                     t  == Top2(r1, n)
                     lo == t \div (b[n] + 1)
                     h0 == (t + 1) \div b[n]
                     hi == IF h0 > Base - 1 THEN Base - 1 ELSE h0
                     d  == QuotDigit(r1, b, lo, hi)
                 IN DivAt(a, b, i - 1, NatSub(r1, NatMulSmall(b, d)), <<d>> \o q)

\* a \div k for one limb k >= 1, from the top limb of a down
RECURSIVE DivSmallAt(_, _, _, _, _)
DivSmallAt(a, k, i, r, q) ==
    IF i = 0 THEN Strip(q)
    ELSE LET y == r * Base + a[i]
         IN DivSmallAt(a, k, i - 1, y % k, <<y \div k>> \o q)

NatDivSmall(a, k) == DivSmallAt(a, k, Len(a), 0, <<>>)

\* a \div b for b > 0; both are scaled first so that the top limb of the
\* divisor is large and the estimate of each quotient limb is close.
NatDiv(a, b) ==
    IF Len(b) = 1 THEN NatDivSmall(a, b[1])
    ELSE LET f == Base \div (b[Len(b)] + 1)
         IN IF f = 1 THEN DivAt(a, b, Len(a), <<>>, <<>>)
            ELSE LET a1 == NatMulSmall(a, f)
                 IN DivAt(a1, NatMulSmall(b, f), Len(a1), <<>>, <<>>)

\* The largest r in lo..hi with r * r <= n, for n below Base^2.
RECURSIVE IntRoot(_, _, _)
IntRoot(n, lo, hi) ==
    IF lo >= hi THEN lo
    ELSE LET mid == (lo + hi + 1) \div 2
         IN IF mid * mid <= n THEN IntRoot(n, mid, hi) ELSE IntRoot(n, lo, mid - 1)

\* Newton's iteration from a guess r at or above the root of a.
RECURSIVE Newton(_, _)
Newton(a, r) ==
    LET y == NatDivSmall(NatAdd(r, NatDiv(a, r)), 2)
    IN IF NatCmp(y, r) >= 0 THEN r ELSE Newton(a, y)

\* The largest root with root^2 <= a.
NatSqrt(a) ==
    LET n == Len(a)
    IN IF n <= 2 THEN NatOf(IntRoot(Top2(a, 1), 0, Base - 1))
       ELSE IF n % 2 = 0
            THEN Newton(a, ShiftUp(NatOf(IntRoot(Top2(a, n - 1), 0, Base - 1) + 1),
                                   (n - 2) \div 2))
            ELSE Newton(a, ShiftUp(NatOf(IntRoot(a[n], 0, Base - 1) + 1),
                                   (n - 1) \div 2))

(* ------------------------- fixed-point numbers -------------------------- *)

NaN == <<2, <<>>>>
IsNaN(x) == x[1] = 2
Num(s, n) == IF n = <<>> \/ s = 0 THEN <<0, <<>>>> ELSE <<s, n>>
Zero == <<0, <<>>>>

\* The integer k.
Int2Num(k) == IF k = 0 THEN Zero
              ELSE IF k < 0 THEN <<-1, ShiftUp(NatOf(-k), FracLimbs)>>
              ELSE <<1, ShiftUp(NatOf(k), FracLimbs)>>

Neg(x) == IF IsNaN(x) THEN NaN ELSE <<-x[1], x[2]>>
Abs(x) == IF IsNaN(x) THEN NaN ELSE <<x[1] * x[1], x[2]>>

Add(x, y) ==
    IF IsNaN(x) \/ IsNaN(y) THEN NaN
    ELSE IF x[1] = 0 THEN y
    ELSE IF y[1] = 0 THEN x
    ELSE IF x[1] = y[1] THEN <<x[1], NatAdd(x[2], y[2])>>
    ELSE LET c == NatCmp(x[2], y[2])
         IN IF c = 0 THEN Zero
            ELSE IF c > 0 THEN <<x[1], NatSub(x[2], y[2])>>
            ELSE <<y[1], NatSub(y[2], x[2])>>

Sub(x, y) == Add(x, Neg(y))

Mul(x, y) == IF IsNaN(x) \/ IsNaN(y) THEN NaN
             ELSE Num(x[1] * y[1], ShiftDown(NatMul(x[2], y[2]), FracLimbs))

\* x / y; a division by zero does not occur where the program divides
\* (each divisor is 1 - beta^t, sqrt(v) + epsilon, or guarded), NaN if it did.
Div(x, y) == IF IsNaN(x) \/ IsNaN(y) \/ y[1] = 0 THEN NaN
             ELSE Num(x[1] * y[1], NatDiv(ShiftUp(x[2], FracLimbs), y[2]))

Square(x) == Mul(x, x)

Sqrt(x) == IF IsNaN(x) \/ x[1] < 0 THEN NaN
           ELSE Num(x[1], NatSqrt(ShiftUp(x[2], FracLimbs)))

\* -1, 0, 1 as x < y, x = y, x > y (numbers that are not NaN)
Cmp(x, y) == Sub(x, y)[1]
Less(x, y) == ~IsNaN(x) /\ ~IsNaN(y) /\ Cmp(x, y) < 0
Leq(x, y) == ~IsNaN(x) /\ ~IsNaN(y) /\ Cmp(x, y) <= 0
Maximum(x, y) == IF IsNaN(x) \/ IsNaN(y) THEN NaN ELSE IF Cmp(x, y) >= 0 THEN x ELSE y

\* x ** k for a natural exponent k
RECURSIVE Pow(_, _)
Pow(x, k) == IF k = 0 THEN Int2Num(1) ELSE Mul(x, Pow(x, k - 1))

\* The decimal a / b.
Frac(a, b) == Div(Int2Num(a), Int2Num(b))

(* ------------------------------ tensors --------------------------------- *)

\* Elementwise operations on tensors (sequences of numbers); the k of
\* TScale is a scalar broadcast over the tensor.
TAdd(a, b) == [i \in 1..Len(a) |-> Add(a[i], b[i])]
TSub(a, b) == [i \in 1..Len(a) |-> Sub(a[i], b[i])]
TMul(a, b) == [i \in 1..Len(a) |-> Mul(a[i], b[i])]
TNeg(a) == [i \in 1..Len(a) |-> Neg(a[i])]
TScale(a, k) == [i \in 1..Len(a) |-> Mul(a[i], k)]
TSquare(a) == [i \in 1..Len(a) |-> Square(a[i])]
TMaximum(a, b) == [i \in 1..Len(a) |-> Maximum(a[i], b[i])]
TInts(s) == [i \in 1..Len(s) |-> Int2Num(s[i])]
ZeroTensor(n) == [i \in 1..n |-> Zero]
IsZeroTensor(a) == \A i \in 1..Len(a) : a[i] = Zero

RECURSIVE SumTo(_, _)
SumTo(a, i) == IF i = 0 THEN Zero ELSE Add(SumTo(a, i - 1), a[i])

reduce_mean(a) == Div(SumTo(a, Len(a)), Int2Num(Len(a)))

\* Population standard deviation over the whole tensor.
reduce_std(a) ==
    LET mu == reduce_mean(a)
    IN Sqrt(reduce_mean(TSquare([i \in 1..Len(a) |-> Sub(a[i], mu)])))

divide_no_nan(a, b) == IF b = Zero THEN Zero ELSE Div(a, b)

\* t with values[k] added at indices[k], for every k (tf scatter_add).
RECURSIVE ScatterTo(_, _, _, _)
ScatterTo(t, indices, values, k) ==
    IF k = 0 THEN t
    ELSE LET u == ScatterTo(t, indices, values, k - 1)
         IN [u EXCEPT ![indices[k]] = Add(u[indices[k]], values[k])]

scatter_add(t, indices, values) == ScatterTo(t, indices, values, Len(indices))

(* ------------------------ the optimizer's inputs ------------------------ *)

\* Constructor defaults of Adalpha.__init__.
learning_rate == Frac(1, 1000)
beta_1 == Frac(9, 10)
beta_2 == Frac(999, 1000)
epsilon == Frac(1, 10000000)
\* chaos_punishment: the default, and the value src/main.py passes.
ChaosPunishments == {1, 2, 6}
Variants == {"Adalpha", "AdAlpha_Momentum"}

\* Values update_loss is called with.
StdVals == {Frac(1, 2), Int2Num(1)}

\* var_list: two model variables, of one and of two elements, and their
\* values when the optimizer is constructed.
Shape == <<1, 2>>
NParams == Len(Shape)
InitialVars == [p \in 1..NParams |-> [i \in 1..Shape[p] |-> Int2Num(1)]]

\* Bound on the number of update_step calls of a run.
MaxSteps == 4

\* A gradient is dense (values for every element) or a tf.IndexedSlices
\* (values at indices; the host passes each index at most once).
Dense(vals) == [sparse |-> FALSE, indices |-> <<>>, values |-> TInts(vals)]
IndexedSlices(vals, idx) == [sparse |-> TRUE, indices |-> idx, values |-> TInts(vals)]
Gradients(n) ==
    IF n = 1 THEN {Dense(<<0>>), Dense(<<2>>)}
    ELSE {Dense(<<0, 0>>), Dense(<<1, -2>>), IndexedSlices(<<3>>, <<2>>)}

\* The dense gradient a gradient stands for.
Densify(g, n) == IF g.sparse THEN scatter_add(ZeroTensor(n), g.indices, g.values)
                 ELSE g.values
IsZeroGradient(g) == IsZeroTensor(g.values)

(* ------------------------------ state ----------------------------------- *)

VARIABLES
    variant,        \* the optimizer class constructed
    amsgrad,        \* self.amsgrad
    chaos_punish,   \* self.chaos_punish
    std,            \* self.std, the control signal
    built,          \* self._built
    momentums,      \* self._momentums, one tensor per model variable
    velocities,     \* self._velocities
    velocity_hats,  \* self._velocity_hats (amsgrad only)
    n_variables,    \* optimizer variables added by add_variable_from_reference
    vars,           \* the model variables
    iterations,     \* self.iterations, advanced by the host once per step
    pc,             \* where the host's training loop is
    next,           \* the model variable the host updates next in this step
    last,           \* the last call made, and the state it found
    track,          \* per model variable: its last update_step calls
    loss_updated,   \* update_loss has been called
    cb,             \* the Adalpha_Callback: ema_w, change, loss, a, b, batches
    act             \* a call of _m_activ on its own: input and result

optvars == <<variant, amsgrad, chaos_punish, std, built, momentums, velocities,
             velocity_hats, n_variables, vars, iterations, pc, next, last,
             track, loss_updated>>
vars_all == <<optvars, cb, act>>

(* --------------------------- AdAlpha_Momentum --------------------------- *)

\* |mean(m)| - std(m), one scalar over the whole tensor.
Spread(m) == Sub(Abs(reduce_mean(m)), reduce_std(m))

\* The activation with the same d^2 in numerator and denominator and
\* d = |mean - std|.
m_activ_same_d(m) ==
    LET dd == Sub(reduce_mean(m), reduce_std(m))
        nn == Square(Abs(dd))
        ee == Mul(Frac(1, 10), Square(dd))
    IN [i \in 1..Len(m) |->
          Mul(m[i], Pow(Sub(Int2Num(2),
                            divide_no_nan(Sub(Square(m[i]), nn),
                                          Add(Square(m[i]), ee))), 2))]

\* AdAlpha_Momentum._m_activ
m_activ(m) ==
    LET dd == Spread(m)
        nn == Square(Mul(Frac(1, 100), Abs(dd)))
        ee == Mul(Frac(1, 10), Square(dd))
    IN [i \in 1..Len(m) |->
          Mul(m[i], Pow(Sub(Int2Num(2),
                            divide_no_nan(Sub(Square(m[i]), nn),
                                          Add(Square(m[i]), ee))), 2))]

(* ----------------------------- update_step ------------------------------ *)

One == Int2Num(1)

\* A step counter kept per model variable instead of per optimizer step.
local_step_per_variable == iterations + next

\* local_step = iterations + 1
local_step == iterations + 1

StepScale(t) == Mul(learning_rate,
                    Div(Sqrt(Sub(One, Pow(beta_2, t))), Sub(One, Pow(beta_1, t))))

\* The chaos factor without the complement, as AdAlpha_Momentum has it.
AlphaBase_no_complement(t, s, cp) == Mul(StepScale(t), Pow(s, cp))

\* alpha of Adalpha.update_step
AlphaBase(t, s, cp) == Mul(StepScale(t), Pow(Sub(One, Mul(s, Int2Num(cp))), cp))

\* alpha of AdAlpha_Momentum.update_step
AlphaMomentum(t, s, cp) == Mul(StepScale(t), Pow(s, cp))

\* An amsgrad branch that never raises v_hat.
AmsgradKeep(vh, vv) == vh

\* v_hat.assign(tf.maximum(v_hat, v))
AmsgradMax(vh, vv) == TMaximum(vh, vv)

\* The second moment fed with the gradient itself.
GradUnsquared(gv) == gv

\* tf.square(gradient)
GradSquare(gv) == TSquare(gv)

\* variable.assign_sub((m * alpha) / (tf.sqrt(v) + self.epsilon))
AssignSub(var, mm, alpha, vden) ==
    [i \in 1..Len(var) |->
        Sub(var[i], Div(Mul(mm[i], alpha), Add(Sqrt(vden[i]), epsilon)))]

\* The amsgrad branch and the parameter write that end both paths of both
\* variants: mm, vv are the updated moments.
Finish(mm, vv, vh, var, alpha, ams) ==
    LET vh1 == IF ams THEN AmsgradMax(vh, vv) ELSE vh
    IN [m |-> mm, v |-> vv, v_hat |-> vh1,
        var |-> AssignSub(var, mm, alpha, IF ams THEN vh1 ELSE vv)]

\* The dense change of a moment with the difference the wrong way round.
MomentDelta_reversed(gv, mm, c) == TScale(TSub(mm, gv), c)

\* (gradient - m) * (1 - beta): the dense change of a moment.
MomentDelta(gv, mm, c) == TScale(TSub(gv, mm), c)

\* -m * (1 - beta): the decay the sparse path applies to a whole moment.
MomentDecay(mm, c) == TScale(TNeg(mm), c)

\* Adalpha.update_step on one model variable whose state is mm, vv, vh, var.
Adalpha_update_step(g, mm, vv, vh, var, t, s, cp, ams) ==
    LET alpha == AlphaBase(t, s, cp)
        c1 == Sub(One, beta_1)
        c2 == Sub(One, beta_2)
    IN IF g.sparse
       THEN Finish(scatter_add(TAdd(mm, MomentDecay(mm, c1)),
                               g.indices, TScale(g.values, c1)),
                   scatter_add(TAdd(vv, MomentDecay(vv, c2)),
                               g.indices, TScale(GradSquare(g.values), c2)),
                   vh, var, alpha, ams)
       ELSE Finish(TAdd(mm, MomentDelta(g.values, mm, c1)),
                   TAdd(vv, MomentDelta(GradSquare(g.values), vv, c2)),
                   vh, var, alpha, ams)

\* AdAlpha_Momentum.update_step
AdAlpha_Momentum_update_step(g, mm, vv, vh, var, t, s, cp, ams) ==
    LET alpha == AlphaMomentum(t, s, cp)
        c1 == Sub(One, beta_1)
        c2 == Sub(One, beta_2)
    IN IF g.sparse
       THEN Finish(scatter_add(TAdd(mm, m_activ(MomentDecay(mm, c1))),
                               g.indices, m_activ(TScale(g.values, c1))),
                   scatter_add(TAdd(vv, m_activ(MomentDecay(vv, c2))),
                               g.indices, m_activ(TScale(GradSquare(g.values), c2))),
                   vh, var, alpha, ams)
       ELSE Finish(TAdd(mm, m_activ(MomentDelta(g.values, mm, c1))),
                   TAdd(vv, m_activ(MomentDelta(GradSquare(g.values), vv, c2))),
                   vh, var, alpha, ams)

update_step(cls, g, mm, vv, vh, var, t, s, cp, ams) ==
    IF cls = "Adalpha" THEN Adalpha_update_step(g, mm, vv, vh, var, t, s, cp, ams)
    ELSE AdAlpha_Momentum_update_step(g, mm, vv, vh, var, t, s, cp, ams)

(* ------------------------------ actions --------------------------------- *)

NoGradient == [sparse |-> FALSE, indices |-> <<>>, values |-> <<>>]
Call(op) == [op |-> op, p |-> 0, g |-> NoGradient, m |-> <<>>, v |-> <<>>,
             v_hat |-> <<>>, var |-> <<>>, t |-> 0, std |-> Zero]
Untracked == [n |-> 0, t |-> 0, zrun |-> 0, delta |-> <<>>, pdelta |-> <<>>,
              same_std |-> FALSE, std |-> Zero]

\* Adalpha_Callback.__init__(optimizer, ema_w, change=0.99)
CallbackInit(w) == [ema_w |-> w, change |-> Frac(99, 100), loss |-> One,
                    a |-> One, b |-> One, batches |-> 0, const |-> TRUE]
ActIdle == [in |-> <<>>, out |-> <<>>, done |-> FALSE]

\* Adalpha.__init__ / AdAlpha_Momentum.__init__
OptimizerInit ==
    /\ variant \in Variants
    /\ amsgrad \in BOOLEAN
    /\ chaos_punish \in ChaosPunishments
    /\ std = One
    /\ built = FALSE
    /\ momentums = <<>>
    /\ velocities = <<>>
    /\ velocity_hats = <<>>
    /\ n_variables = 0
    /\ vars = InitialVars
    /\ iterations = 0
    /\ pc = "build"
    /\ next = 1
    /\ last = Call("init")
    /\ track = [p \in 1..NParams |-> Untracked]
    /\ loss_updated = FALSE

Init == OptimizerInit /\ cb = CallbackInit(Frac(1, 4)) /\ act = ActIdle

\* A build without the early return.
NeverBuilt == FALSE

\* if hasattr(self, "_built") and self._built: return
AlreadyBuilt == built

\* build(var_list), which the host calls at the start of every step.
Build ==
    /\ pc \in {"build", "callback"}
    /\ IF AlreadyBuilt
       THEN UNCHANGED <<built, momentums, velocities, velocity_hats, n_variables>>
       ELSE /\ built' = TRUE
            /\ momentums' = [p \in 1..NParams |-> ZeroTensor(Shape[p])]
            /\ velocities' = [p \in 1..NParams |-> ZeroTensor(Shape[p])]
            /\ velocity_hats' = IF amsgrad
                                THEN [p \in 1..NParams |-> ZeroTensor(Shape[p])]
                                ELSE <<>>
            /\ n_variables' = n_variables + 2 * NParams
                              + (IF amsgrad THEN NParams ELSE 0)
    /\ pc' = "update"
    /\ next' = 1
    /\ last' = Call("build")
    /\ UNCHANGED <<variant, amsgrad, chaos_punish, std, vars, iterations, track,
                   loss_updated, cb, act>>

\* update_loss(new_std), called between steps.
UpdateLoss(new_std) ==
    /\ pc = "callback"
    /\ std' = new_std
    /\ loss_updated' = TRUE
    /\ pc' = "build"
    /\ last' = Call("update_loss")
    /\ UNCHANGED <<variant, amsgrad, chaos_punish, built, momentums, velocities,
                   velocity_hats, n_variables, vars, iterations, next, track,
                   cb, act>>

StepsTaken == iterations * NParams + (IF pc = "update" THEN next - 1 ELSE 0)

VHat(p) == IF amsgrad THEN velocity_hats[p] ELSE <<>>

\* update_step(gradient, variable) for the model variable the host is at.
UpdateStep(g) ==
    /\ pc = "update"
    /\ built
    /\ next <= NParams
    /\ StepsTaken < MaxSteps
    /\ \E r \in {update_step(variant, g, momentums[next], velocities[next],
                              VHat(next), vars[next], local_step, std,
                              chaos_punish, amsgrad)} :
       LET p == next
           t == local_step
           zero == IsZeroGradient(g)
       IN /\ momentums' = [momentums EXCEPT ![p] = r.m]
          /\ velocities' = [velocities EXCEPT ![p] = r.v]
          /\ velocity_hats' = IF amsgrad
                              THEN [velocity_hats EXCEPT ![p] = r.v_hat]
                              ELSE velocity_hats
          /\ vars' = [vars EXCEPT ![p] = r.var]
          /\ last' = [op |-> "update_step", p |-> p, g |-> g,
                      m |-> momentums[p], v |-> velocities[p], v_hat |-> VHat(p),
                      var |-> vars[p], t |-> t, std |-> std]
          /\ track' = [track EXCEPT ![p] =
                         [n |-> @.n + 1, t |-> t,
                          zrun |-> IF zero THEN @.zrun + 1 ELSE 0,
                          delta |-> TSub(vars[p], r.var),
                          pdelta |-> @.delta,
                          same_std |-> @.n > 0 /\ @.std = std,
                          std |-> std]]
    /\ next' = next + 1
    /\ UNCHANGED <<variant, amsgrad, chaos_punish, std, built, n_variables,
                   iterations, pc, loss_updated, cb, act>>

\* The host ends the step: every model variable is updated, iterations += 1.
EndStep ==
    /\ pc = "update"
    /\ next > NParams
    /\ iterations' = iterations + 1
    /\ pc' = "callback"
    /\ last' = Call("end_step")
    /\ UNCHANGED <<variant, amsgrad, chaos_punish, std, built, momentums,
                   velocities, velocity_hats, n_variables, vars, next, track,
                   loss_updated, cb, act>>

Next ==
    \/ Build
    \/ \E g \in Gradients(Shape[IF next <= NParams THEN next ELSE 1]) : UpdateStep(g)
    \/ EndStep
    \/ \E s \in StdVals : UpdateLoss(s)

Spec == Init /\ [][Next]_vars_all

(* ---------------------------- _m_activ alone ---------------------------- *)

MaxLen == 2
ActVals == {Int2Num(-2), Int2Num(-1), Frac(-1, 2), Zero, Frac(1, 2), One,
            Int2Num(3)}
ActInputs == UNION {[1..n -> ActVals] : n \in 1..MaxLen}

InitActiv ==
    /\ OptimizerInit
    /\ variant = "AdAlpha_Momentum"
    /\ cb = CallbackInit(Frac(1, 4))
    /\ act \in {[in |-> x, out |-> <<>>, done |-> FALSE] : x \in ActInputs}

\* self._m_activ(act.in)
Activate ==
    /\ ~act.done
    /\ act' = [in |-> act.in, out |-> m_activ(act.in), done |-> TRUE]
    /\ UNCHANGED <<optvars, cb>>

NextActiv == Activate

SpecActiv == InitActiv /\ [][NextActiv]_vars_all

(* --------------------------- Adalpha_Callback --------------------------- *)

EmaWs == {Frac(1, 4), Frac(3, 4)}
Losses == {Zero, Frac(1, 2), Int2Num(2)}
MaxBatches == 7

\* self.a = self.ema_w * self.loss + (1 - self.ema_w) * self.a
EmaA(w, loss, a) == Add(Mul(w, loss), Mul(Sub(One, w), a))

\* self.b = (1 - self.ema_w) * self.loss + self.ema_w * self.b
EmaB(w, loss, b) == Add(Mul(Sub(One, w), loss), Mul(w, b))

\* A signal that multiplies by b.
SignalProduct(change, a, b) == Mul(Mul(change, a), b)

\* (self.change * self.a) / self.b
Signal(change, a, b) == Div(Mul(change, a), b)

InitCallback ==
    /\ OptimizerInit
    /\ ~amsgrad
    /\ chaos_punish = 1
    /\ cb \in {CallbackInit(w) : w \in EmaWs}
    /\ act = ActIdle

\* on_train_batch_end(batch, logs) with logs["loss"] = loss: the two moving
\* averages move and the signal goes to the optimizer by update_loss.
OnTrainBatchEnd(loss) ==
    /\ cb.batches < MaxBatches
    /\ \E a1 \in {EmaA(cb.ema_w, loss, cb.a)} :
       \E b1 \in {EmaB(cb.ema_w, loss, cb.b)} :
          /\ cb' = [cb EXCEPT !.loss = loss, !.a = a1, !.b = b1,
                              !.batches = @ + 1,
                              !.const = @ /\ (cb.batches = 0 \/ loss = cb.loss)]
          /\ std' = Signal(cb.change, a1, b1)
    /\ loss_updated' = TRUE
    /\ last' = Call("update_loss")
    /\ UNCHANGED <<variant, amsgrad, chaos_punish, built, momentums, velocities,
                   velocity_hats, n_variables, vars, iterations, pc, next,
                   track, act>>

NextCallback == \E loss \in Losses : OnTrainBatchEnd(loss)

SpecCallback == InitCallback /\ [][NextCallback]_vars_all

(* ----------------------------- get_config -------------------------------- *)

\* get_config(): the keys Adalpha adds to the base optimizer's configuration.
get_config ==
    [learning_rate |-> learning_rate, beta_1 |-> beta_1, beta_2 |-> beta_2,
     epsilon |-> epsilon, amsgrad |-> amsgrad]

\* The constructor called with the entries of a configuration: an argument
\* the configuration does not hold takes its default.
from_config(config) ==
    [learning_rate |-> IF "learning_rate" \in DOMAIN config
                       THEN config.learning_rate ELSE Frac(1, 1000),
     chaos_punish |-> IF "chaos_punishment" \in DOMAIN config
                      THEN config.chaos_punishment ELSE 1,
     beta_1 |-> IF "beta_1" \in DOMAIN config THEN config.beta_1 ELSE Frac(9, 10),
     beta_2 |-> IF "beta_2" \in DOMAIN config THEN config.beta_2
                ELSE Frac(999, 1000),
     epsilon |-> IF "epsilon" \in DOMAIN config THEN config.epsilon
                 ELSE Frac(1, 10000000),
     amsgrad |-> IF "amsgrad" \in DOMAIN config THEN config.amsgrad ELSE FALSE,
     std |-> One]

(* ------------------------------ properties ------------------------------ *)

Params == 1..NParams
Elems(p) == 1..Shape[p]
Updated == last.op = "update_step"

\* new lies between old and 0: no sign change, no growth.
TowardZero(old, new) ==
    /\ Leq(Zero, old) => (Leq(Zero, new) /\ Leq(new, old))
    /\ Leq(old, Zero) => (Leq(old, new) /\ Leq(new, Zero))

\* C1: with amsgrad enabled, in both variants, v_hat is elementwise at least
\* v for every model variable after every update_step.
C1_VHatAtLeastV ==
    (built /\ amsgrad) =>
        \A p \in Params : \A i \in Elems(p) :
            Leq(velocities[p][i], velocity_hats[p][i])

\* An update after which v has fallen strictly below the running maximum.
C1_Witness ==
    /\ amsgrad
    /\ Updated
    /\ \E i \in Elems(last.p) :
          /\ Less(velocities[last.p][i], velocity_hats[last.p][i])
          /\ Less(Zero, velocities[last.p][i])

DenseOf(g, n) == [sparse |-> FALSE, indices |-> <<>>, values |-> Densify(g, n)]

\* What update_step makes of the state the last call found, were it given
\* the gradient g.
LastWith(g) ==
    update_step(variant, g, last.m, last.v, last.v_hat, last.var, last.t,
                last.std, chaos_punish, amsgrad)

\* The sparse update just made left what the dense one would have left.
SparseAsDense ==
    LET p == last.p
        d == LastWith(DenseOf(last.g, Shape[p]))
        touched == {last.g.indices[k] : k \in 1..Len(last.g.indices)}
    IN /\ \A i \in Elems(p) :
             IF i \in touched
             THEN /\ momentums[p][i] = d.m[i]
                  /\ velocities[p][i] = d.v[i]
             ELSE /\ momentums[p][i] = Mul(beta_1, last.m[i])
                  /\ velocities[p][i] = Mul(beta_2, last.v[i])
       /\ vars[p] = d.var

\* C3: a sparse update leaves m and v at the touched indices as the dense
\* update with the dense-equivalent gradient would, only decays m and v at
\* the other indices (m -> beta_1 * m, v -> beta_2 * v), and changes the
\* parameter by the same delta.
C3_SparseMatchesDense == (Updated /\ last.g.sparse) => SparseAsDense

\* C3 for the base variant alone.
C3_BaseSparseMatchesDense ==
    (Updated /\ last.g.sparse /\ variant = "Adalpha") => SparseAsDense

\* A sparse update of the base variant on moments that are not zero.
C3_BaseWitness ==
    /\ Updated
    /\ last.g.sparse
    /\ variant = "Adalpha"
    /\ ~IsZeroTensor(last.m)

\* C4: build with the same variable list called again allocates no new
\* moment tensors and leaves the existing ones as they are; the first build
\* creates m and v (and v_hat with amsgrad) once per model variable, all zero.
C4_BuildIdempotent ==
    [][last'.op = "build" =>
          IF built
          THEN /\ momentums' = momentums
               /\ velocities' = velocities
               /\ velocity_hats' = velocity_hats
               /\ n_variables' = n_variables
               /\ built'
          ELSE /\ built'
               /\ n_variables' = (IF amsgrad THEN 3 ELSE 2) * NParams
               /\ \A p \in Params :
                     /\ IsZeroTensor(momentums'[p])
                     /\ IsZeroTensor(velocities'[p])
                     /\ amsgrad => IsZeroTensor(velocity_hats'[p])]_vars_all

\* build called again on an optimizer whose moments are not zero any more.
C4_Witness ==
    /\ last.op = "build"
    /\ iterations > 0
    /\ \A p \in Params : ~IsZeroTensor(momentums[p]) /\ ~IsZeroTensor(velocities[p])
    /\ n_variables = (IF amsgrad THEN 3 ELSE 2) * NParams

\* The last update had an all-zero gradient and was not the variable's first.
ZeroAfterUpdate == Updated /\ IsZeroGradient(last.g) /\ track[last.p].n >= 2

\* m and v of the variable just updated lie between their old values and 0.
MomentsTowardZero ==
    \A i \in Elems(last.p) :
        /\ TowardZero(last.m[i], momentums[last.p][i])
        /\ TowardZero(last.v[i], velocities[last.p][i])

C8_ConfigRoundTrip ==
    /\ {"learning_rate", "beta_1", "beta_2", "epsilon", "amsgrad",
        "chaos_punishment"} \subseteq DOMAIN get_config
    /\ from_config(get_config).chaos_punish = chaos_punish

\* C8 without chaos_punishment: the five keys the configuration does hold
\* come back as they were.
C8_OtherKeysRoundTrip ==
    /\ {"learning_rate", "beta_1", "beta_2", "epsilon", "amsgrad"}
          \subseteq DOMAIN get_config
    /\ from_config(get_config).amsgrad = amsgrad
    /\ from_config(get_config).learning_rate = learning_rate

\* C9: update_step writes only the variable it is given and that variable's
\* m, v, v_hat; iterations, std and every other variable's state stay as
\* they are; all variables updated in one optimizer step see the same
\* t = iterations + 1 and the same std; std changes only in update_loss.
C9_UpdateStepFrame ==
    /\ [][last'.op = "update_step" =>
             /\ iterations' = iterations
             /\ std' = std
             /\ chaos_punish' = chaos_punish
             /\ last'.t = iterations + 1
             /\ \A q \in Params \ {last'.p} :
                   /\ vars'[q] = vars[q]
                   /\ momentums'[q] = momentums[q]
                   /\ velocities'[q] = velocities[q]
                   /\ amsgrad => velocity_hats'[q] = velocity_hats[q]]_vars_all
    /\ [][std' # std => last'.op = "update_loss"]_vars_all
    /\ [][pc' = "update" =>
             \A q \in 1..(next' - 1) :
                 track'[q].t = iterations' + 1 /\ track'[q].std = std']_vars_all

\* The second variable of a step after the first, on moments that changed,
\* at the step count and std the first one saw.
C9_Witness ==
    /\ Updated
    /\ last.p = NParams
    /\ iterations > 0
    /\ track[1].t = last.t
    /\ track[1].std = last.std
    /\ momentums[last.p] # last.m
    /\ vars[last.p] # last.var

\* C10: in the base variant, when std * chaos_punishment is 1, update_step
\* leaves the parameter as it is and still updates m and v; an optimizer
\* built with the defaults changes no parameter before update_loss is called.
C10_ZeroAlphaKeepsParameter ==
    /\ (Updated /\ variant = "Adalpha"
          /\ Mul(last.std, Int2Num(chaos_punish)) = One) =>
             vars[last.p] = last.var
    /\ (variant = "Adalpha" /\ chaos_punish = 1 /\ ~loss_updated) =>
             vars = InitialVars

\* A base-variant update at std * chaos_punishment = 1 that changed m and v.
C10_Witness ==
    /\ Updated
    /\ variant = "Adalpha"
    /\ Mul(last.std, Int2Num(chaos_punish)) = One
    /\ last.std # One
    /\ iterations > 0
    /\ momentums[last.p] # last.m
    /\ velocities[last.p] # last.v
    /\ ~IsZeroTensor(last.m)
    /\ vars[last.p] = last.var

\* d of the activation: | |mean(x)| - std(x) |, one scalar for the tensor.
ActivD(x) == Abs(Sub(Abs(reduce_mean(x)), reduce_std(x)))

\* (x^2 - (c * d)^2) / (x^2 + 0.1 * d^2), and 0 where the denominator is 0.
ActivQuotient(xi, d, c) ==
    LET den == Add(Square(xi), Mul(Frac(1, 10), Square(d)))
    IN IF den = Zero THEN Zero
       ELSE Div(Sub(Square(xi), Square(Mul(c, d))), den)

Within(x, y, tol) == Leq(Abs(Sub(x, y)), Mul(tol, Abs(y)))

SettleBatches == 6
Tolerance == Frac(1, 5)

\* The callback has seen one and the same loss since it was made, in at
\* least SettleBatches batches.
ConstantLossRun == cb.const /\ cb.batches >= SettleBatches

====
